---------------------------- MODULE Spec2Model ----------------------------
(***************************************************************************)
(* Resilient external-call layer of the travel-itinerary generator:       *)
(* CircuitBreaker, retryWithBackoff and fetchWithTimeout (utils/timeout,   *)
(* src/unnamed/part_000 lines 104-277) and the itinerary endpoint that     *)
(* composes them (src/app/api/itinerary/route.ts, POST).                   *)
(*                                                                         *)
(* The specifications of the module:                                       *)
(*   SpecBreaker  one CircuitBreaker used by concurrent execute() calls    *)
(*   SpecRetry    one run of retryWithBackoff                              *)
(*   SpecFetch    one run of fetchWithTimeout                              *)
(*   SpecPost     itinerary requests handled by POST, one after another    *)
(*   SpecPostLive SpecPost with the timers and handler steps fair          *)
(*   SpecParse    the repair parser of POST on texts                       *)
(*   SpecImages   fetchDiverseLocationImages (utils/pexels.ts)             *)
(*   SpecSelect   the photo selection of fetchPexelsImage                  *)
(*   SpecMulti    fetchMultiplePexelsImages                                *)
(* Variables a specification does not use keep their initial value.        *)
(***************************************************************************)
EXTENDS Integers, Sequences, FiniteSets, TLC

(***************************************************************************)
(* Bounds of the model.                                                    *)
(***************************************************************************)
NumCallers == 3
MaxTime == 5
MaxThreshold == 3
MaxReset == 2
MaxAttempts == 4
MaxBaseDelay == 3
MaxDays == 2
MaxPostTime == 75
NumLocations == 4
MaxPhotos == 6
MaxAlternatives == 4
MaxParseDays == 1
NumQueries == 4

Callers == 1..NumCallers

(***************************************************************************)
(* Program constants. Times of the endpoint are in units of 1000 ms.       *)
(***************************************************************************)
\* circuitBreakers.perplexity = new CircuitBreaker(3, 60000, 'Perplexity-AI')
PerplexityThreshold == 3
PerplexityReset == 60
\* TIMEOUTS (part_000 105-111)
TIMEOUTS_GLOBAL == 30
TIMEOUTS_AI == 15
TIMEOUTS_PEXELS == 8
\* retryWithBackoff(..., 3, 2000, 'Perplexity API Call') (route.ts 403)
PexelsThreshold == 5
PexelsReset == 30
FallbackQueries == 3
BATCH_SIZE == 3

MultiMaxAttempts == 2
MultiBaseDelay == 500
MinWidth == 800
MinHeight == 600
TopResults == 5

AiMaxAttempts == 3
\* const maxAttempts = 5 (route.ts 440)
MaxParseAttempts == 5
AiBaseDelay == 2
\* days < 1 || days > 14 (route.ts 127)
MinDaysAllowed == 1
MaxDaysAllowed == 14

VARIABLES
    \* ---- CircuitBreaker fields (part_000 216-224) and the clock
    state,              \* 'CLOSED' | 'OPEN' | 'HALF_OPEN'
    failures,           \* private failures
    lastFailureTime,    \* private lastFailureTime
    failureThreshold,   \* constructor parameter
    resetTimeout,       \* constructor parameter
    now,                \* Date.now()
    \* ---- callers of execute() in SpecBreaker
    pc,                 \* per caller: "idle" or "inflight" (awaiting operation())
    \* ---- history variables (observers; no code reads them)
    consecFail,         \* failed execute() calls since the last successful one
    trial,              \* caller admitted by the OPEN -> HALF_OPEN transition, 0 if none
    lastEvent,          \* the last step: its kind, its caller, the breaker state before it
    \* ---- one run of retryWithBackoff (part_000 182-212)
    maxAttempts,        \* parameter
    baseDelay,          \* parameter
    attempt,            \* loop variable
    lastError,          \* let lastError
    rpc,                \* "start", "await" (operation() pending), "sleep", "done"
    outcome,            \* how the returned promise settled
    invocations,        \* history: number of operation() invocations
    delays,             \* history: the delays handed to setTimeout, in order
    errors,             \* history: the errors operation() threw, in order
    succeededAt,        \* history: invocation that resolved, 0 if none
    \* ---- one run of fetchWithTimeout (part_000 121-149)
    timeout,            \* options.timeout
    operation,          \* options.operation
    fpc,                \* "start", "await" (fetch pending), "done"
    timer,              \* timeoutId: "unset", "armed", "fired", "cleared"
    aborted,            \* controller.signal.aborted
    net,                \* how the promise of fetch() settled
    fres,               \* how the promise of fetchWithTimeout settled
    startedAt,          \* time of the call
    settles,            \* history: number of times fetchWithTimeout settled
    \* ---- the itinerary endpoint (route.ts POST)
    apiKey,             \* process.env.PERPLEXITY_API_KEY is set
    req,                \* the request being handled: position in POST, locals, response, history
    \* ---- one run of fetchDiverseLocationImages (pexels.ts 239-341)
    img,                \* its position, the searches of each location, its result, history
    \* ---- one run of the image selection of fetchPexelsImage (pexels.ts 139-170)
    sel,                \* data.photos, the random draw and the returned image
    \* ---- one run of fetchMultiplePexelsImages (pexels.ts 181-236)
    multi,              \* its position, the state of each query, the results array
    \* ---- one run of the response-repair parser (route.ts 428-468)
    par                 \* content, jsonMatch, parseAttempts and the outcome

cbVars == <<state, failures, lastFailureTime, failureThreshold, resetTimeout, now>>
callVars == <<pc, consecFail, trial, lastEvent>>

retryVars == <<maxAttempts, baseDelay, attempt, lastError, rpc, outcome,
               invocations, delays, errors, succeededAt>>

fetchVars == <<timeout, operation, fpc, timer, aborted, net, fres, startedAt,
               settles>>

postVars == <<apiKey, req>>

imgVars == <<img>>

auxVars == <<sel, multi, par>>

vars == <<cbVars, callVars, retryVars, fetchVars, postVars, imgVars, auxVars>>

(***************************************************************************)
(* CircuitBreaker                                                          *)
(***************************************************************************)

\* execute(), lines 227-234: the gate throws when the breaker is OPEN and the
\* reset timeout has not elapsed since the last failure.
BreakerRejects ==
    /\ state = "OPEN"
    /\ ~(now - lastFailureTime > resetTimeout)

\* execute(), lines 227-230: an OPEN breaker whose timeout elapsed turns HALF_OPEN.
GateState == IF state = "OPEN" THEN "HALF_OPEN" ELSE state

\* Variant of onSuccess that keeps the failure count (sensitivity of C4).
onSuccess_keepsCount ==
    /\ failures' = failures
    /\ state' = IF state = "HALF_OPEN" THEN "CLOSED" ELSE state
    /\ UNCHANGED lastFailureTime

\* onSuccess(), lines 246-252.
onSuccess ==
    /\ failures' = 0
    /\ state' = IF state = "HALF_OPEN" THEN "CLOSED" ELSE state
    /\ UNCHANGED lastFailureTime

\* Variant of onFailure comparing with > instead of >= (sensitivity of C1).
onFailure_strict ==
    /\ failures' = failures + 1
    /\ lastFailureTime' = now
    /\ state' = IF failures + 1 > failureThreshold THEN "OPEN" ELSE state

\* onFailure(), lines 254-262.
onFailure ==
    /\ failures' = failures + 1
    /\ lastFailureTime' = now
    /\ state' = IF failures + 1 >= failureThreshold THEN "OPEN" ELSE state

Event(k, c) == [kind |-> k, who |-> c, from |-> state]

\* new CircuitBreaker(failureThreshold, resetTimeout, name)
NewBreaker(threshold, reset) ==
    /\ state = "CLOSED"
    /\ failures = 0
    /\ lastFailureTime = 0
    /\ failureThreshold = threshold
    /\ resetTimeout = reset
    /\ now = 0
    /\ pc = [c \in Callers |-> "idle"]
    /\ consecFail = 0
    /\ trial = 0
    /\ lastEvent = [kind |-> "none", who |-> 0, from |-> "CLOSED"]

\* execute() up to the await of operation(): rejected at the gate,
\* or admitted with the operation invoked.
Execute(c) ==
    /\ pc[c] = "idle"
    /\ IF BreakerRejects
       THEN /\ lastEvent' = Event("reject", c)
            /\ UNCHANGED <<cbVars, pc, consecFail, trial>>
       ELSE /\ state' = GateState
            /\ pc' = [pc EXCEPT ![c] = "inflight"]
            /\ trial' = IF state = "OPEN" THEN c ELSE trial
            /\ lastEvent' = Event("admit", c)
            /\ UNCHANGED <<failures, lastFailureTime, failureThreshold,
                           resetTimeout, now, consecFail>>

\* Variant of the resolution that an OPEN breaker blocks (sensitivity of C14).
CompleteOk_gated(c) ==
    /\ pc[c] = "inflight"
    /\ state # "OPEN"
    /\ onSuccess
    /\ pc' = [pc EXCEPT ![c] = "idle"]
    /\ consecFail' = 0
    /\ trial' = IF trial = c THEN 0 ELSE trial
    /\ lastEvent' = Event("success", c)
    /\ UNCHANGED <<failureThreshold, resetTimeout, now>>

\* operation() resolved: lines 237-239.
CompleteOk(c) ==
    /\ pc[c] = "inflight"
    /\ onSuccess
    /\ pc' = [pc EXCEPT ![c] = "idle"]
    /\ consecFail' = 0
    /\ trial' = IF trial = c THEN 0 ELSE trial
    /\ lastEvent' = Event("success", c)
    /\ UNCHANGED <<failureThreshold, resetTimeout, now>>

\* operation() rejected: lines 240-243.
CompleteFail(c) ==
    /\ pc[c] = "inflight"
    /\ onFailure
    /\ pc' = [pc EXCEPT ![c] = "idle"]
    /\ consecFail' = consecFail + 1
    /\ trial' = IF trial = c THEN 0 ELSE trial
    /\ lastEvent' = Event("failure", c)
    /\ UNCHANGED <<failureThreshold, resetTimeout, now>>

\* Time passes.
Tick ==
    /\ now < MaxTime
    /\ now' = now + 1
    /\ lastEvent' = Event("tick", 0)
    /\ UNCHANGED <<state, failures, lastFailureTime, failureThreshold,
                   resetTimeout, pc, consecFail, trial>>

NextBreaker ==
    \/ \E c \in Callers : Execute(c) /\ UNCHANGED <<retryVars, fetchVars, postVars, imgVars, auxVars>>
    \/ \E c \in Callers : CompleteOk(c) /\ UNCHANGED <<retryVars, fetchVars, postVars, imgVars, auxVars>>
    \/ \E c \in Callers : CompleteFail(c) /\ UNCHANGED <<retryVars, fetchVars, postVars, imgVars, auxVars>>
    \/ Tick /\ UNCHANGED <<retryVars, fetchVars, postVars, imgVars, auxVars>>

(***************************************************************************)
(* retryWithBackoff                                                        *)
(***************************************************************************)

NoError == [id |-> 0, name |-> "undefined"]
NoOutcome == [type |-> "pending"]

\* Variant of LoopContinues running one attempt too many (sensitivity of C8).
LoopContinues_extra(a, max) == a <= max + 1

\* Line 190: for (attempt = 1; attempt <= maxAttempts; attempt++).
LoopContinues(a, max) == a <= max

\* Line 199: if (attempt === maxAttempts) ... break.
AttemptsExhausted(a, max) == a = max

\* Variant of BackoffDelay growing linearly (sensitivity of C7).
BackoffDelay_linear(base, a) == base * a

\* Line 204: baseDelay * Math.pow(2, attempt - 1).
BackoffDelay(base, a) == base * 2 ^ (a - 1)

\* The state of a call that has not been made.
RetryIdle ==
    /\ attempt = 0
    /\ lastError = NoError
    /\ rpc = "start"
    /\ outcome = NoOutcome
    /\ invocations = 0
    /\ delays = << >>
    /\ errors = << >>
    /\ succeededAt = 0

\* Lines 188-193: the first pass of the loop; operation() is invoked unless
\* maxAttempts < 1, when the loop is skipped and line 211 throws lastError.
RetryStart ==
    /\ rpc = "start"
    /\ attempt' = 1
    /\ IF LoopContinues(1, maxAttempts)
       THEN /\ invocations' = invocations + 1
            /\ rpc' = "await"
            /\ outcome' = outcome
       ELSE /\ invocations' = invocations
            /\ rpc' = "done"
            /\ outcome' = [type |-> "throw", error |-> lastError]
    /\ UNCHANGED <<maxAttempts, baseDelay, lastError, delays, errors, succeededAt>>

\* Lines 193-195: operation() resolved; its result is returned.
RetryOpResolves ==
    /\ rpc = "await"
    /\ rpc' = "done"
    /\ outcome' = [type |-> "return", value |-> [by |-> invocations]]
    /\ succeededAt' = invocations
    /\ UNCHANGED <<maxAttempts, baseDelay, attempt, lastError, invocations,
                   delays, errors>>

\* Lines 196-207 and 211: operation() rejected with error object e; after the
\* last attempt the loop breaks and lastError is thrown, otherwise the backoff
\* timer is set.
RetryOpRejects(name) ==
    /\ rpc = "await"
    /\ LET e == [id |-> invocations, name |-> name] IN
       /\ lastError' = e
       /\ errors' = Append(errors, e)
       /\ IF AttemptsExhausted(attempt, maxAttempts)
          THEN /\ rpc' = "done"
               /\ outcome' = [type |-> "throw", error |-> e]
               /\ delays' = delays
          ELSE /\ rpc' = "sleep"
               /\ outcome' = outcome
               /\ delays' = Append(delays, BackoffDelay(baseDelay, attempt))
    /\ UNCHANGED <<maxAttempts, baseDelay, attempt, invocations, succeededAt>>

\* Line 207 resolves: attempt++ and the next pass of the loop (lines 190-193).
RetryWake ==
    /\ rpc = "sleep"
    /\ attempt' = attempt + 1
    /\ IF LoopContinues(attempt + 1, maxAttempts)
       THEN /\ invocations' = invocations + 1
            /\ rpc' = "await"
            /\ outcome' = outcome
       ELSE /\ invocations' = invocations
            /\ rpc' = "done"
            /\ outcome' = [type |-> "throw", error |-> lastError]
    /\ UNCHANGED <<maxAttempts, baseDelay, lastError, delays, errors, succeededAt>>

(***************************************************************************)
(* fetchWithTimeout                                                        *)
(***************************************************************************)

\* new TimeoutError(operation, timeout), lines 113-118.
TimeoutError(op, t) == [name |-> "TimeoutError", operation |-> op, timeout |-> t]

\* clearTimeout(timeoutId): cancels a timer that has not fired.
ClearTimeout(t) == IF t = "armed" THEN "cleared" ELSE t

\* Variant of TimerAfterResponse that leaves the timer running (sensitivity of C9).
TimerAfterResponse_kept == timer

\* Line 138: clearTimeout(timeoutId) once fetch() resolved.
TimerAfterResponse == ClearTimeout(timer)

\* Lines 143-147: an AbortError becomes a TimeoutError, any other error is rethrown.
Rethrown(error, op, t) ==
    IF error.name = "AbortError" THEN TimeoutError(op, t) ELSE error

\* The state of a call that has not been made.
FetchIdle(t, op) ==
    /\ timeout = t
    /\ operation = op
    /\ fpc = "start"
    /\ timer = "unset"
    /\ aborted = FALSE
    /\ net = [kind |-> "pending"]
    /\ fres = NoOutcome
    /\ startedAt = 0
    /\ settles = 0

\* Lines 125-136: the controller is made, the timer set and fetch() called.
FetchStart ==
    /\ fpc = "start"
    /\ fpc' = "await"
    /\ timer' = "armed"
    /\ startedAt' = now
    /\ UNCHANGED <<timeout, operation, aborted, net, fres, settles, now>>

\* fetch() resolves with a response (of any status): lines 133-139.
FetchResponds(status) ==
    /\ fpc = "await"
    /\ net.kind = "pending"
    /\ net' = [kind |-> "response", response |-> [status |-> status]]
    /\ timer' = TimerAfterResponse
    /\ fres' = [type |-> "return", response |-> [status |-> status]]
    /\ fpc' = "done"
    /\ settles' = settles + 1
    /\ UNCHANGED <<timeout, operation, aborted, startedAt, now>>

\* fetch() rejects for a reason of its own (a transport error): lines 140-147.
FetchFails(error) ==
    /\ fpc = "await"
    /\ net.kind = "pending"
    /\ net' = [kind |-> "error", error |-> error]
    /\ timer' = ClearTimeout(timer)
    /\ fres' = [type |-> "throw", error |-> Rethrown(error, operation, timeout)]
    /\ fpc' = "done"
    /\ settles' = settles + 1
    /\ UNCHANGED <<timeout, operation, aborted, startedAt, now>>

\* The timer fires: lines 128-130 abort the controller; a pending fetch()
\* rejects with an AbortError, which lines 140-145 turn into a TimeoutError.
FetchTimerFires ==
    /\ timer = "armed"
    /\ now - startedAt >= timeout
    /\ timer' = "fired"
    /\ aborted' = TRUE
    /\ IF fpc = "await" /\ net.kind = "pending"
       THEN LET e == [id |-> 0, name |-> "AbortError"] IN
            /\ net' = [kind |-> "error", error |-> e]
            /\ fres' = [type |-> "throw", error |-> Rethrown(e, operation, timeout)]
            /\ fpc' = "done"
            /\ settles' = settles + 1
       ELSE UNCHANGED <<net, fres, fpc, settles>>
    /\ UNCHANGED <<timeout, operation, startedAt, now>>

\* Time passes, until just after the deadline.
FetchTick ==
    /\ fpc # "start"
    /\ now - startedAt <= timeout
    /\ now' = now + 1
    /\ UNCHANGED fetchVars

Statuses == {200, 500}
TransportErrors == {[id |-> 1, name |-> "TypeError"]}
FetchOptions ==
    {<<TIMEOUTS_GLOBAL, "fetch">>, <<TIMEOUTS_AI, "perplexity-api">>,
     <<TIMEOUTS_PEXELS, "pexels-search">>}

(***************************************************************************)
(* fetchDiverseLocationImages and fetchPexelsImage of src/app/utils/pexels.ts *)
(***************************************************************************)

Locations == 1..NumLocations

\* The searches of one location: the primary query (index 0), then the
\* fallbackQueries, always three (pexels.ts 256-279).
LastQuery == FallbackQueries

NoSearch == [st |-> "idle", q |-> 0]

IdleImg(key) ==
    [key |-> key, pc |-> "idle", loc |-> [l \in Locations |-> NoSearch],
     result |-> {}, expired |-> FALSE, resolvedAtExpiry |-> {}]

ImgIdle == img = IdleImg(FALSE)

InFlight(loc) == {l \in Locations : loc[l].st = "inflight"}
Found(loc) == {l \in Locations : loc[l].st = "found"}

\* fetchPexelsImage up to its await (pexels.ts 95-132) for query q: without
\* PEXELS_API_KEY, or with the pexels breaker rejecting, it returns null at
\* once, and so do the queries after it; otherwise the search is in flight.
\* rejects is what the gate of circuitBreakers.pexels answers.
BeginSearch(key, rejects, q) ==
    IF ~key \/ rejects
    THEN [st |-> "none", q |-> 0]
    ELSE [st |-> "inflight", q |-> q]

\* Lines 290-305 after a search that gave no image: the next fallback query,
\* or the location resolves without image.
AfterNull(key, rejects, q) ==
    IF q < LastQuery
    THEN BeginSearch(key, rejects, q + 1)
    ELSE [st |-> "none", q |-> 0]

\* Lines 313-316 and 333-340: the deadline rejects the race before the loop of
\* 320-327 has stored anything, and the catch returns {}.
ResultOnExpiry(loc) == {}

\* Promise.allSettled(imagePromises) wins the race (lines 313-332) as soon as
\* every location has resolved: the mapping of the locations with an image.
Settle(i) ==
    IF i.pc = "collecting" /\ \A l \in Locations : i.loc[l].st \in {"found", "none"}
    THEN [i EXCEPT !.pc = "returned", !.result = Found(i.loc)]
    ELSE i

\* fetchDiverseLocationImages is called: lines 243-311, every location's
\* primary search starts in the same synchronous pass and the deadline is armed.
DiverseStart ==
    /\ img.pc = "idle"
    /\ img' = Settle([img EXCEPT !.pc = "collecting",
                                 !.loc = [l \in Locations |->
                                            BeginSearch(img.key, BreakerRejects, 0)]])
    /\ state' = IF img.key /\ ~BreakerRejects THEN GateState ELSE state
    /\ UNCHANGED <<failures, lastFailureTime, failureThreshold, resetTimeout, now>>

\* What a search that got an answer yields (pexels.ts 134-170).
Answers == {"image", "noPhotos", "non2xx"}

\* The search of location l got an HTTP answer: execute() runs onSuccess
\* whatever the status; an image resolves the location, anything else is null.
SearchAnswers(l, a) ==
    /\ img.loc[l].st = "inflight"
    /\ onSuccess
    /\ img' = Settle([img EXCEPT !.loc[l] =
                         IF a = "image"
                         THEN [st |-> "found", q |-> 0]
                         ELSE AfterNull(img.key, FALSE, img.loc[l].q)])
    /\ UNCHANGED <<failureThreshold, resetTimeout, now>>

\* The search of location l threw (TimeoutError or transport error):
\* execute() runs onFailure, fetchPexelsImage's catch returns null, and the
\* next query meets the breaker as the failure left it.
SearchThrows(l) ==
    /\ img.loc[l].st = "inflight"
    /\ onFailure
    /\ img' = Settle([img EXCEPT !.loc[l] =
                         AfterNull(img.key, failures + 1 >= failureThreshold,
                                   img.loc[l].q)])
    /\ UNCHANGED <<failureThreshold, resetTimeout, now>>

\* The timer of lines 309-311 fires while the race is pending.
DeadlineFires ==
    /\ img.pc = "collecting"
    /\ img' = [img EXCEPT !.pc = "returned", !.expired = TRUE,
                          !.resolvedAtExpiry = Found(img.loc),
                          !.result = ResultOnExpiry(img.loc)]
    /\ UNCHANGED cbVars

(***************************************************************************)
(* The image selection of fetchPexelsImage (pexels.ts 139-170)             *)
(***************************************************************************)

\* The sizes of a photo of the search answer, around the bar of line 148.
PhotoSizes ==
    {[width |-> w, height |-> h] : w \in {MinWidth - 1, MinWidth},
                                   h \in {MinHeight - 1, MinHeight}}
PhotoLists == UNION {[1..n -> PhotoSizes] : n \in 0..MaxPhotos}

\* Line 148: photo.width >= 800 && photo.height >= 600.
MeetsBar(photo) == photo.width >= MinWidth /\ photo.height >= MinHeight

\* Variant of the slice that looks at every photo (sensitivity of C26).
TopSlice_all(photos) == 1..Len(photos)

\* Line 146: data.photos.slice(0, 5), as positions in data.photos.
TopSlice(photos) == {i \in 1..Len(photos) : i <= TopResults}

\* Lines 144-151: validImages, as the positions of the photos pushed, in order.
validImages(photos) ==
    SelectSeq([i \in 1..Len(photos) |-> i],
              LAMBDA i : i \in TopSlice(photos) /\ MeetsBar(photos[i]))

\* Math.floor(Math.random() * validImages.length), line 160.
RandomIndexes(photos) == 0..(Len(validImages(photos)) - 1)

\* Lines 142-170: the position of the photo returned, 0 for null.
SelectedImage(photos, randomIndex) ==
    IF Len(photos) = 0
    THEN 0
    ELSE IF Len(validImages(photos)) = 0
    THEN 1
    ELSE validImages(photos)[randomIndex + 1]

IdleSel == [pc |-> "idle", photos |-> << >>, returned |-> 0]
SelIdle == sel = IdleSel

\* The search answered with data.photos; fetchPexelsImage returns.
SelectImage ==
    /\ sel.pc = "answered"
    /\ IF Len(validImages(sel.photos)) = 0
       THEN sel' = [sel EXCEPT !.pc = "returned",
                               !.returned = SelectedImage(sel.photos, 0)]
       ELSE \E r \in RandomIndexes(sel.photos) :
               sel' = [sel EXCEPT !.pc = "returned",
                                  !.returned = SelectedImage(sel.photos, r)]

(***************************************************************************)
(* fetchMultiplePexelsImages (pexels.ts 181-236)                           *)
(***************************************************************************)

Queries == 1..NumQueries

\* queries.slice(i, i + BATCH_SIZE), line 194, as positions in queries.
BatchOf(i) == {k \in Queries : i < k /\ k <= i + BATCH_SIZE}

WaitingItem ==
    [st |-> "waiting", attempt |-> 0, value |-> "none", failed |-> FALSE,
     searches |-> 0, delay |-> 0]

IdleMulti(key) ==
    [key |-> key, pc |-> "idle", i |-> 0, items |-> [k \in Queries |-> WaitingItem],
     results |-> << >>]

MultiIdle == multi = IdleMulti(FALSE)

\* fetchPexelsImage never rejects: its catch (171-178) returns null for a
\* TimeoutError, a transport error and the breaker's rejection alike.
OperationRejects(failed) == FALSE

\* retryWithBackoff (part_000 190-211) around fetchPexelsImage, lines 201-206,
\* once operation() has settled with value; failed tells that the search
\* did not get an answer with status 2xx.
AfterOperation(item, value, failed) ==
    IF ~OperationRejects(failed)
    THEN [item EXCEPT !.st = "done", !.value = value, !.failed = failed]
    ELSE IF AttemptsExhausted(item.attempt, MultiMaxAttempts)
    THEN [item EXCEPT !.st = "done", !.value = "null", !.failed = failed]
    ELSE [item EXCEPT !.st = "sleep", !.failed = failed,
                      !.delay = BackoffDelay(MultiBaseDelay, item.attempt)]

\* operation() is invoked for an item: without PEXELS_API_KEY fetchPexelsImage
\* returns null before any search (96-100); with the breaker rejecting,
\* execute() throws and the catch returns null; otherwise the search is in
\* flight.
InvokeOperation(item, key, rejects) ==
    LET it == [item EXCEPT !.attempt = @ + 1] IN
    IF ~key
    THEN AfterOperation(it, "null", FALSE)
    ELSE IF rejects
    THEN AfterOperation([it EXCEPT !.searches = @ + 1], "null", TRUE)
    ELSE [it EXCEPT !.st = "inflight", !.searches = @ + 1]

\* Variant of the wait for the batch that goes on after the first settled
\* item (sensitivity of C30).
BatchSettled_any(items, i) == \E k \in BatchOf(i) : items[k].st = "done"

\* await Promise.allSettled(batchPromises), line 209.
BatchSettled(items, i) == \A k \in BatchOf(i) : items[k].st = "done"

\* The values of a batch in the order of its queries, lines 212-219.
BatchValues(items, i) ==
    [n \in 1..Cardinality(BatchOf(i)) |-> items[i + n].value]

\* Lines 209-231: once the batch has settled its values are pushed; then the
\* 200 ms pause before the next batch, or the return of results.
BatchStep(m) ==
    IF m.pc = "batch" /\ BatchSettled(m.items, m.i)
    THEN [m EXCEPT !.results = @ \o BatchValues(m.items, m.i),
                   !.pc = IF m.i + BATCH_SIZE < NumQueries THEN "pause" ELSE "returned"]
    ELSE m

\* Lines 193-207: the batch that starts at i maps its queries to retryWithBackoff.
StartBatch(m, i, rejects) ==
    BatchStep([m EXCEPT !.pc = "batch", !.i = i,
                        !.items = [k \in Queries |->
                                     IF k \in BatchOf(i)
                                     THEN InvokeOperation(m.items[k], m.key, rejects)
                                     ELSE m.items[k]]])

\* fetchMultiplePexelsImages is called: the first batch starts.
MultiStart ==
    /\ multi.pc = "idle"
    /\ multi' = StartBatch(multi, 0, BreakerRejects)
    /\ state' = IF multi.key /\ ~BreakerRejects THEN GateState ELSE state
    /\ UNCHANGED <<failures, lastFailureTime, failureThreshold, resetTimeout, now>>

\* The search of query k got an HTTP answer: execute() runs onSuccess and
\* fetchPexelsImage returns an image or null.
MultiAnswers(k, a) ==
    /\ multi.items[k].st = "inflight"
    /\ onSuccess
    /\ multi' = BatchStep([multi EXCEPT !.items[k] =
                              AfterOperation(@, IF a = "image" THEN "image" ELSE "null",
                                             a = "non2xx")])
    /\ UNCHANGED <<failureThreshold, resetTimeout, now>>

\* The search of query k threw: execute() runs onFailure and fetchPexelsImage
\* returns null.
MultiThrows(k) ==
    /\ multi.items[k].st = "inflight"
    /\ onFailure
    /\ multi' = BatchStep([multi EXCEPT !.items[k] = AfterOperation(@, "null", TRUE)])
    /\ UNCHANGED <<failureThreshold, resetTimeout, now>>

\* The 200 ms pause of lines 222-224 is over: the next batch starts.
MultiNextBatch ==
    /\ multi.pc = "pause"
    /\ multi' = StartBatch(multi, multi.i + BATCH_SIZE, BreakerRejects)
    /\ state' = IF multi.key /\ ~BreakerRejects THEN GateState ELSE state
    /\ UNCHANGED <<failures, lastFailureTime, failureThreshold, resetTimeout, now>>

(***************************************************************************)
(* The repair parser of the endpoint (route.ts 433-468) on texts.  A text  *)
(* is a sequence of one-character strings.                                 *)
(***************************************************************************)

Quote == "\""
Digits == {"1", "2"}
Letters == {"a", "b", "d", "t", "r", "u", "e"}
\* \s and \w of the regular expressions, on the characters used here
IsSpace(c) == c = " "
IsWord(c) == c \in Letters \cup Digits

\* s[i], or "" past the end of s
At(s, i) == IF i \in DOMAIN s THEN s[i] ELSE ""

\* The first position from i on whose character is not in the class.
RECURSIVE SkipSpace(_, _)
SkipSpace(s, i) == IF IsSpace(At(s, i)) THEN SkipSpace(s, i + 1) ELSE i
RECURSIVE SkipWord(_, _)
SkipWord(s, i) == IF IsWord(At(s, i)) THEN SkipWord(s, i + 1) ELSE i
RECURSIVE SkipDigits(_, _)
SkipDigits(s, i) == IF At(s, i) \in Digits THEN SkipDigits(s, i + 1) ELSE i
\* The first position from i on that holds one of the characters, or Len(s)+1.
RECURSIVE Find(_, _, _)
Find(s, i, chars) ==
    IF i > Len(s) \/ s[i] \in chars THEN i ELSE Find(s, i + 1, chars)
\* The last position up to i that holds one of the characters, or 0.
RECURSIVE FindLast(_, _, _)
FindLast(s, i, chars) ==
    IF i < 1 \/ s[i] \in chars THEN i ELSE FindLast(s, i - 1, chars)

\* content.match(/\{[\s\S]*\}/) (line 433): from the first '{' to the last
\* '}', or no match (the empty text).
GreedyMatch(content) ==
    LET i == Find(content, 1, {"{"})
        j == FindLast(content, Len(content), {"}"})
    IN IF i <= Len(content) /\ j > i THEN SubSeq(content, i, j) ELSE << >>

\* content.match(/\{[\s\S]*?\}/g) (line 464): from each '{' to the next '}',
\* left to right without overlap.
RECURSIVE Alternatives(_, _)
Alternatives(content, from) ==
    LET i == Find(content, from, {"{"})
        j == Find(content, i + 1, {"}"})
    IN IF j > Len(content) THEN << >>
       ELSE <<SubSeq(content, i, j)>> \o Alternatives(content, j + 1)

\* Line 447: replace(/,(\s*[}\]])/g, '$1').
RECURSIVE RemoveTrailingCommas(_, _)
RemoveTrailingCommas(s, i) ==
    IF i > Len(s) THEN << >>
    ELSE IF s[i] = "," /\ At(s, SkipSpace(s, i + 1)) \in {"}", "]"}
    THEN RemoveTrailingCommas(s, i + 1)
    ELSE <<s[i]>> \o RemoveTrailingCommas(s, i + 1)

\* Line 448: replace(/([{\[,]\s*)(\w+):/g, '$1"$2":').
RECURSIVE QuoteKeys(_, _)
QuoteKeys(s, i) ==
    IF i > Len(s) THEN << >>
    ELSE LET j == SkipSpace(s, i + 1)
             k == SkipWord(s, j)
         IN IF s[i] \in {"{", "[", ","} /\ k > j /\ At(s, k) = ":"
            THEN SubSeq(s, i, j - 1) \o <<Quote>> \o SubSeq(s, j, k - 1)
                    \o <<Quote, ":">> \o QuoteKeys(s, k + 1)
            ELSE <<s[i]>> \o QuoteKeys(s, i + 1)

\* Line 449: replace(/:\s*([^",{\[\s][^,}\]]*[^,}\]\s])/g, ': "$1"').  After
\* ':' and white space the group starts with a character other than
\* '"', ',', '{', '[' and white space, runs up to the next ',', '}' or ']' and
\* ends with its last character that is not white space; it has at least two
\* characters.
RECURSIVE LastNonSpace(_, _)
LastNonSpace(s, i) == IF IsSpace(At(s, i)) THEN LastNonSpace(s, i - 1) ELSE i
RECURSIVE QuoteValues(_, _)
QuoteValues(s, i) ==
    IF i > Len(s) THEN << >>
    ELSE LET j == SkipSpace(s, i + 1)
             k == LastNonSpace(s, Find(s, j + 1, {",", "}", "]"}) - 1)
         IN IF /\ s[i] = ":"
               /\ j <= Len(s)
               /\ s[j] \notin {Quote, ",", "{", "["}
               /\ k > j
            THEN <<":", " ", Quote>> \o SubSeq(s, j, k) \o <<Quote>>
                    \o QuoteValues(s, k + 1)
            ELSE <<s[i]>> \o QuoteValues(s, i + 1)

\* Lines 447-449, in order.
Repair(jsonString) ==
    QuoteValues(QuoteKeys(RemoveTrailingCommas(jsonString, 1), 1), 1)

\* JSON.parse on these characters: objects, arrays, strings without escapes,
\* unsigned integers and true, with white space between tokens.  A parsed
\* value is given by its text without white space: two values are deep-equal
\* exactly when these texts are equal (keys are distinct and keep their order).
ParseError == [ok |-> FALSE, pos |-> 0, out |-> << >>]
Parsed(pos, out) == [ok |-> TRUE, pos |-> pos, out |-> out]

ParseString(s, i) ==
    LET j == Find(s, i + 1, {Quote})
    IN IF At(s, i) = Quote /\ j <= Len(s)
       THEN Parsed(j + 1, SubSeq(s, i, j)) ELSE ParseError

RECURSIVE ParseValue(_, _)
RECURSIVE ParseMembers(_, _, _)
RECURSIVE ParseElements(_, _, _)
ParseValue(s, i0) ==
    LET i == SkipSpace(s, i0)
        c == At(s, i)
        j == SkipSpace(s, i + 1)
    IN CASE c = "{" -> IF At(s, j) = "}" THEN Parsed(j + 1, <<"{", "}">>)
                       ELSE ParseMembers(s, j, <<"{">>)
         [] c = "[" -> IF At(s, j) = "]" THEN Parsed(j + 1, <<"[", "]">>)
                       ELSE ParseElements(s, j, <<"[">>)
         [] c = Quote -> ParseString(s, i)
         [] c \in Digits -> Parsed(SkipDigits(s, i), SubSeq(s, i, SkipDigits(s, i) - 1))
         [] c = "t" -> IF SubSeq(s, i, i + 3) = <<"t", "r", "u", "e">>
                          /\ i + 3 <= Len(s)
                       THEN Parsed(i + 4, <<"t", "r", "u", "e">>)
                       ELSE ParseError
         [] OTHER -> ParseError
ParseMembers(s, i, acc) ==
    LET key == ParseString(s, SkipSpace(s, i))
        c == SkipSpace(s, key.pos)
        v == ParseValue(s, c + 1)
        e == SkipSpace(s, v.pos)
        out == acc \o key.out \o <<":">> \o v.out
    IN IF ~key.ok \/ At(s, c) # ":" THEN ParseError
       ELSE IF ~v.ok THEN ParseError
       ELSE IF At(s, e) = "," THEN ParseMembers(s, e + 1, out \o <<",">>)
       ELSE IF At(s, e) = "}" THEN Parsed(e + 1, out \o <<"}">>)
       ELSE ParseError
ParseElements(s, i, acc) ==
    LET v == ParseValue(s, i)
        e == SkipSpace(s, v.pos)
        out == acc \o v.out
    IN IF ~v.ok THEN ParseError
       ELSE IF At(s, e) = "," THEN ParseElements(s, e + 1, out \o <<",">>)
       ELSE IF At(s, e) = "]" THEN Parsed(e + 1, out \o <<"]">>)
       ELSE ParseError

JSONParse(s) ==
    LET v == ParseValue(s, 1)
    IN IF v.ok /\ SkipSpace(s, v.pos) > Len(s) THEN v ELSE ParseError

\* The values of the fields of an itinerary: numbers of one and of several
\* digits, a boolean, and strings without and with ':' and ','.
Scalars ==
    {[t |-> "number", v |-> <<"1">>], [t |-> "number", v |-> <<"1", "2">>],
     [t |-> "boolean", v |-> <<"t", "r", "u", "e">>],
     [t |-> "string", v |-> <<"a">>], [t |-> "string", v |-> <<"a", ":", "b">>],
     [t |-> "string", v |-> <<"a", ",", "b">>]}

\* Itinerary-shaped objects: a field "a" and the list "d" of the days, each
\* day an object with a field "a".
Itineraries ==
    [a : Scalars, d : UNION {[1..n -> Scalars] : n \in 0..MaxParseDays}]

\* JSON.stringify
StringifyScalar(x) == IF x.t = "string" THEN <<Quote>> \o x.v \o <<Quote>> ELSE x.v
Field(name, text) == <<Quote, name, Quote, ":">> \o text
RECURSIVE StringifyDays(_, _)
StringifyDays(d, i) ==
    IF i > Len(d) THEN << >>
    ELSE (IF i > 1 THEN <<",">> ELSE << >>)
            \o <<"{">> \o Field("a", StringifyScalar(d[i])) \o <<"}">>
            \o StringifyDays(d, i + 1)
Stringify(it) ==
    <<"{">> \o Field("a", StringifyScalar(it.a)) \o <<",">>
        \o Field("d", <<"[">> \o StringifyDays(it.d, 1) \o <<"]">>) \o <<"}">>

\* The object as the AI may write it: with a comma before the closing brace.
WithTrailingComma(text) == SubSeq(text, 1, Len(text) - 1) \o <<",", "}">>

\* Prose before and after the object.
ProseBefore == {<< >>, <<"a", " ">>, <<"{", "a", "}", " ">>}
ProseAfter == {<< >>, <<" ", "a">>}
HasBraces(text) == \E i \in DOMAIN text : text[i] \in {"{", "}"}

IdlePar ==
    [pc |-> "idle", original |-> << >>, trailingComma |-> FALSE,
     before |-> << >>, after |-> << >>, content |-> << >>,
     jsonMatch |-> << >>, parseAttempts |-> 0, end |-> "none", itinerary |-> << >>]
ParIdle == par = IdlePar

\* Line 458: if (parseAttempts >= maxAttempts) throw.
ParseGivesUp(parseAttempts) == parseAttempts >= MaxParseAttempts

\* Lines 429-440: the content arrives and the greedy match is taken.
ParStart(it, before, after, trailingComma) ==
    /\ par.pc = "idle"
    /\ LET text == IF trailingComma THEN WithTrailingComma(Stringify(it))
                   ELSE Stringify(it)
           content == before \o text \o after
           p == [IdlePar EXCEPT !.original = Stringify(it),
                                !.trailingComma = trailingComma,
                                !.before = before, !.after = after,
                                !.content = content,
                                !.jsonMatch = GreedyMatch(content)]
       IN par' = IF p.jsonMatch = << >>
                 THEN [p EXCEPT !.pc = "done", !.end = "noJson"]
                 ELSE [p EXCEPT !.pc = "loop"]

\* One pass of the while loop of lines 442-468.
ParAttempt ==
    /\ par.pc = "loop"
    /\ par.parseAttempts < MaxParseAttempts
    /\ LET r == JSONParse(Repair(par.jsonMatch))
           n == par.parseAttempts + 1
           alternatives == Alternatives(par.content, 1)
       IN par' = IF r.ok
                 THEN [par EXCEPT !.pc = "done", !.end = "parsed",
                                  !.itinerary = r.out]
                 ELSE IF ParseGivesUp(n)
                 THEN [par EXCEPT !.pc = "done", !.end = "threw",
                                  !.parseAttempts = n]
                 ELSE [par EXCEPT !.parseAttempts = n,
                                  !.jsonMatch = IF n \in DOMAIN alternatives
                                                THEN alternatives[n] ELSE @]

\* The request is over; the next content starts from scratch.
ParClose ==
    /\ par.pc = "done"
    /\ par' = IdlePar

AuxIdle == SelIdle /\ MultiIdle /\ ParIdle

(***************************************************************************)
(* The itinerary endpoint: POST of src/app/api/itinerary/route.ts          *)
(***************************************************************************)

Meals == <<"Breakfast", "Lunch", "Dinner">>

\* One entry of itinerary.days as JSON.parse yields it: null, or an object
\* whose dining is absent or a list of meals (given by their meal labels).
DayObject(hasDining, dining) ==
    [kind |-> "object", hasDining |-> hasDining, dining |-> dining]
NullDay == [kind |-> "null", hasDining |-> FALSE, dining |-> << >>]

\* generateEnhancedFallbackItinerary (route.ts 584-686): one entry per day,
\* each with Breakfast, Lunch and Dinner.
generateEnhancedFallbackItinerary(days) ==
    [source |-> "fallback", daysKind |-> "array",
     days |-> [d \in 1..days |-> DayObject(TRUE, Meals)]]

\* ensureAllMeals (route.ts 716-737): the three required meals, in order.
ensureAllMeals(existingMeals) == Meals

\* validateAndEnhanceItinerary, line 708: day.dining of a null entry throws.
ValidateThrows(itinerary) ==
    /\ itinerary.daysKind = "array"
    /\ \E i \in DOMAIN itinerary.days : itinerary.days[i].kind = "null"

\* validateAndEnhanceItinerary (route.ts 689-713), when it does not throw.
validateAndEnhanceItinerary(itinerary, days) ==
    IF itinerary.daysKind # "array"
    THEN generateEnhancedFallbackItinerary(days)
    ELSE [itinerary EXCEPT !.days =
            [i \in DOMAIN itinerary.days |->
                LET day == itinerary.days[i] IN
                IF ~day.hasDining \/ Len(day.dining) < 3
                THEN DayObject(TRUE, ensureAllMeals(day.dining))
                ELSE day]]

\* What the AI may have put in the JSON object of its answer.
AiDayValues ==
    {NullDay, DayObject(FALSE, << >>), DayObject(TRUE, <<"Breakfast">>),
     DayObject(TRUE, Meals), DayObject(TRUE, <<"Brunch", "Lunch", "Dinner">>)}
AiDaySeqs ==
    UNION {[1..n -> AiDayValues] : n \in 0..MaxDays}
AiDocuments ==
    {[source |-> "ai", daysKind |-> k, days |-> << >>] : k \in {"missing", "notArray"}}
    \cup {[source |-> "ai", daysKind |-> "array", days |-> ds] : ds \in AiDaySeqs}

\* The bodies of a 2xx answer that make lines 415-435 throw, before the parse
\* loop is entered.
BadBodies == {"invalidJson", "badStructure", "noJson"}

\* The parse loop of lines 433-468.  A content with a JSON match is given by
\* what the repair passes and JSON.parse do on its candidate spans: on the
\* greedy match, and on each of the non-greedy alternatives.
Contents ==
    [greedy : BOOLEAN,
     alternatives : UNION {[1..n -> BOOLEAN] : n \in 0..MaxAlternatives}]

\* One evaluation of the while condition (line 442) and of the loop body:
\* jsonMatchParses tells whether the current span parses after the repairs.
\* The result is how the loop ends ("parsed" by break, "threw" by line 460,
\* "exited" by the while condition) and the value of parseAttempts then.
RECURSIVE ParseLoop(_, _, _)
ParseLoop(jsonMatchParses, alternatives, parseAttempts) ==
    IF ~(parseAttempts < MaxParseAttempts)
    THEN [end |-> "exited", parseAttempts |-> parseAttempts]
    ELSE IF jsonMatchParses
    THEN [end |-> "parsed", parseAttempts |-> parseAttempts]
    ELSE LET n == parseAttempts + 1 IN
         IF ParseGivesUp(n)
         THEN [end |-> "threw", parseAttempts |-> n]
         ELSE ParseLoop(IF n \in DOMAIN alternatives
                        THEN alternatives[n] ELSE jsonMatchParses,
                        alternatives, n)

\* The ways the loop can end, over all contents.
ParseEnds == {ParseLoop(c.greedy, c.alternatives, 0) : c \in Contents}

\* What fetch() of the AI upstream can do: answer, fail, or take longer than
\* TIMEOUTS.AI; with the time it takes.
AiLatency == 1
AiNetOutcomes ==
    {[kind |-> "response", status |-> 200, after |-> AiLatency],
     [kind |-> "response", status |-> 500, after |-> AiLatency],
     [kind |-> "error", status |-> 0, after |-> AiLatency],
     [kind |-> "timeout", status |-> 0, after |-> TIMEOUTS_AI]}

NoResponse == [status |-> 0, itinerary |-> generateEnhancedFallbackItinerary(0),
               aiModel |-> "", locationImages |-> ""]

IdleReq ==
    [pc |-> "idle", days |-> 0, attempt |-> 0, lastError |-> "undefined",
     due |-> 0, pending |-> [kind |-> "none", status |-> 0, after |-> 0],
     itinerary |-> generateEnhancedFallbackItinerary(0), resp |-> NoResponse,
     hooks |-> 0, failInc |-> 0, netCalls |-> 0, rejects |-> 0, slept |-> 0,
     openAtStart |-> FALSE, wellFormed |-> FALSE, curated |-> FALSE,
     cbAtStart |-> [state |-> "CLOSED", failures |-> 0],
     parseEnd |-> "none"]

PostIdle ==
    /\ apiKey = FALSE
    /\ req = IdleReq

\* NextResponse.json(...): the request is answered.
Respond(q, status, aiModel, images) ==
    [q EXCEPT !.pc = "done",
              !.resp = [status |-> status, itinerary |-> q.itinerary,
                        aiModel |-> aiModel, locationImages |-> images]]

\* Lines 471-487: the itinerary (the AI's or, after any error of the AI path,
\* the fallback) goes through validateAndEnhanceItinerary; what it throws
\* reaches the outer catch of line 562 and is answered with status 500.
AfterAi(q, itinerary) ==
    IF ValidateThrows(itinerary)
    THEN Respond([q EXCEPT !.itinerary = itinerary], 500, "", "")
    ELSE [q EXCEPT !.pc = "places",
                   !.itinerary = validateAndEnhanceItinerary(itinerary, q.days)]

\* The catch of line 471: the fallback itinerary replaces the AI's.
AiFailed(q) == AfterAi(q, generateEnhancedFallbackItinerary(q.days))

\* Variant in which the parse loop is part of the retried operation
\* (sensitivity of C23).
ParseFailed_retried(q) ==
    IF q.attempt < AiMaxAttempts
    THEN [q EXCEPT !.pc = "aiSleep", !.due = now]
    ELSE AiFailed(q)

\* The throw of line 460 is outside retryWithBackoff (375-403) and inside the
\* try of line 374: it lands in the catch of line 471.
ParseFailed(q) == AiFailed(q)

\* `let itinerary` (line 372) when the loop ended without an assignment:
\* line 690 answers !itinerary with the fallback.
UndefinedItinerary == [source |-> "ai", daysKind |-> "missing", days |-> << >>]

\* retryWithBackoff's catch (part_000 196-207) in the AI call: the attempt
\* failed with error e.
AttemptFailed(q, e) ==
    IF AttemptsExhausted(q.attempt, AiMaxAttempts)
    THEN AiFailed([q EXCEPT !.lastError = e])
    ELSE [q EXCEPT !.lastError = e,
                   !.pc = "aiSleep",
                   !.due = now + BackoffDelay(AiBaseDelay, q.attempt),
                   !.slept = @ + BackoffDelay(AiBaseDelay, q.attempt)]

\* One pass of the retry loop (route.ts 375-403): circuitBreakers.perplexity
\* .execute() either throws at its gate or calls fetchWithTimeout.
AiAttempt(q) ==
    IF BreakerRejects
    THEN /\ req' = AttemptFailed([q EXCEPT !.rejects = @ + 1], "breakerOpen")
         /\ UNCHANGED cbVars
    ELSE /\ \E o \in AiNetOutcomes :
              req' = [q EXCEPT !.pc = "aiAwait", !.netCalls = @ + 1,
                        !.pending = o, !.due = now + o.after]
         /\ state' = GateState
         /\ UNCHANGED <<failures, lastFailureTime, failureThreshold, resetTimeout, now>>

\* POST is called with a body; lines 113-180 and the first pass of the AI call.
PostStart(complete, days, curated) ==
    /\ req.pc = "idle"
    /\ now < MaxPostTime
    /\ LET q == [IdleReq EXCEPT !.days = days,
                                !.curated = curated,
                                !.wellFormed = complete /\ days >= MinDaysAllowed
                                                        /\ days <= MaxDaysAllowed] IN
       IF ~complete \/ days = 0
       THEN /\ req' = Respond(q, 400, "", "")
            /\ UNCHANGED cbVars
       ELSE IF days < MinDaysAllowed \/ days > MaxDaysAllowed
       THEN /\ req' = Respond(q, 400, "", "")
            /\ UNCHANGED cbVars
       ELSE IF ~apiKey
       THEN /\ req' = [q EXCEPT !.pc = "imagesNoKey",
                                 !.itinerary = generateEnhancedFallbackItinerary(days),
                                 !.cbAtStart = [state |-> state, failures |-> failures]]
            /\ UNCHANGED cbVars
       ELSE AiAttempt([q EXCEPT !.attempt = 1, !.openAtStart = BreakerRejects])
    /\ UNCHANGED apiKey

\* fetchWithTimeout settled with a response: the breaker's onSuccess runs and
\* retryWithBackoff returns; lines 405-468 read the answer.
AiResponds ==
    /\ req.pc = "aiAwait"
    /\ req.pending.kind = "response"
    /\ now = req.due
    /\ onSuccess
    /\ LET q == [req EXCEPT !.hooks = @ + 1] IN
       IF q.pending.status # 200
       THEN req' = AiFailed(q)
       ELSE \/ \E b \in BadBodies : req' = AiFailed(q)
            \/ \E e \in ParseEnds :
                  LET p == [q EXCEPT !.parseEnd = e.end] IN
                  CASE e.end = "parsed" ->
                         \E doc \in AiDocuments : req' = AfterAi(p, doc)
                    [] e.end = "threw" -> req' = ParseFailed(p)
                    [] e.end = "exited" -> req' = AfterAi(p, UndefinedItinerary)
    /\ UNCHANGED <<failureThreshold, resetTimeout, now, apiKey>>

\* fetchWithTimeout threw (transport error or TimeoutError): the breaker's
\* onFailure runs and the error reaches retryWithBackoff's catch.
AiThrows ==
    /\ req.pc = "aiAwait"
    /\ req.pending.kind \in {"error", "timeout"}
    /\ now = req.due
    /\ onFailure
    /\ req' = AttemptFailed([req EXCEPT !.hooks = @ + 1, !.failInc = @ + 1],
                            req.pending.kind)
    /\ UNCHANGED <<failureThreshold, resetTimeout, now, apiKey>>

\* The backoff timer fired: attempt++ and the next pass of the loop.
AiWake ==
    /\ req.pc = "aiSleep"
    /\ now = req.due
    /\ AiAttempt([req EXCEPT !.attempt = @ + 1])
    /\ UNCHANGED apiKey

\* enhanceWithRealPlaces (line 491, 868-960) resolved without a network call:
\* GOOGLE_PLACES_API_KEY is unset and every searchRealPlaces returns [] at
\* once (768-772).  Lines 493-507 start the image fetch.
PostPlaces ==
    /\ req.pc = "places"
    /\ req' = [req EXCEPT !.pc = "images"]
    /\ UNCHANGED <<cbVars, apiKey>>

\* enhanceWithRealPlaces with GOOGLE_PLACES_API_KEY set: searchRealPlaces
\* awaits fetch(url) (803, 823) and getPlaceDetails awaits fetch(url) (856),
\* one lookup after the other; none of these calls has a timer, a signal or
\* a circuit breaker.
PostPlacesCall ==
    /\ req.pc = "places"
    /\ req' = [req EXCEPT !.pc = "placesAwait"]
    /\ UNCHANGED <<cbVars, apiKey>>

\* The Google Places upstream answered or failed the pending lookups (the
\* catch blocks of 841-844 and 860-863 turn a failure into [] or null):
\* enhanceWithRealPlaces resolves.
PlacesAnswers ==
    /\ req.pc = "placesAwait"
    /\ req' = [req EXCEPT !.pc = "images"]
    /\ UNCHANGED <<cbVars, apiKey>>

\* fetchDiverseLocationImages (pexels.ts 239-341) resolves with a mapping that
\* has images or with {}; its catch (333-340) turns every error, its own
\* TIMEOUTS.IMAGES deadline included, into {}: its promise never rejects.
ImageOutcomes == {"fetched", "empty"}
DiverseRejects == FALSE

\* The race of lines 508-513 has a second timer of TIMEOUTS.IMAGES, armed after
\* the one inside fetchDiverseLocationImages (pexels.ts 309-311), which
\* therefore settles first, and the race with it.
RaceRejects == DiverseRejects

\* getFallbackCityImage (pexels.ts 393-417) and the catch blocks of route.ts
\* 155-161 and 516-525: the curated image is stored under the city key only
\* when the awaited image promise rejected.
LocationImages(images, rejected, curated) ==
    IF rejected
    THEN IF curated THEN "cityFallback" ELSE "empty"
    ELSE images

\* Lines 507-560: the image fetch settled and the answer is sent with status 200.
PostImages(images) ==
    /\ req.pc = "images"
    /\ req' = Respond(req, 200, "llama-3.1-sonar-small-128k-online",
                      LocationImages(images, RaceRejects, req.curated))
    /\ UNCHANGED <<cbVars, apiKey>>

\* Variant of the branch without API key that reports a success to the
\* perplexity breaker (sensitivity of C16).
PostImagesNoKey_resets(images) ==
    /\ req.pc = "imagesNoKey"
    /\ req' = Respond(req, 200, "fallback-enhanced",
                      LocationImages(images, DiverseRejects, req.curated))
    /\ onSuccess
    /\ UNCHANGED <<failureThreshold, resetTimeout, now, apiKey>>

\* Lines 149-179: the answer of the branch without API key.
PostImagesNoKey(images) ==
    /\ req.pc = "imagesNoKey"
    /\ req' = Respond(req, 200, "fallback-enhanced",
                      LocationImages(images, DiverseRejects, req.curated))
    /\ UNCHANGED <<cbVars, apiKey>>

\* The answer has been delivered; the next request starts from scratch.
PostClose ==
    /\ req.pc = "done"
    /\ req' = IdleReq
    /\ UNCHANGED <<cbVars, apiKey>>

Timed == req.pc \in {"aiAwait", "aiSleep"}

\* Time passes until the next timer or network event.
PostAdvance ==
    /\ Timed
    /\ req.due > now
    /\ now' = req.due
    /\ UNCHANGED <<state, failures, lastFailureTime, failureThreshold, resetTimeout,
                   postVars>>

\* process.env.PERPLEXITY_API_KEY, read by every request (line 141), is set or
\* unset between two requests.
PostEnv ==
    /\ req.pc = "idle"
    /\ apiKey' = ~apiKey
    /\ UNCHANGED <<cbVars, req>>

\* Time passes between requests.
Gaps == {58, 61}
PostWait(g) ==
    /\ req.pc = "idle"
    /\ now + g <= MaxPostTime
    /\ now' = now + g
    /\ UNCHANGED <<state, failures, lastFailureTime, failureThreshold, resetTimeout,
                   postVars>>

InputDays == 0..MaxDays \cup {MaxDaysAllowed + 1}

InitPost ==
    /\ NewBreaker(PerplexityThreshold, PerplexityReset)
    /\ maxAttempts = 0
    /\ baseDelay = 0
    /\ RetryIdle
    /\ FetchIdle(TIMEOUTS_GLOBAL, "fetch")
    /\ apiKey \in BOOLEAN
    /\ req = IdleReq
    /\ ImgIdle
    /\ AuxIdle

NextPost ==
    \/ \E c \in BOOLEAN, d \in InputDays, cur \in BOOLEAN :
          PostStart(c, d, cur) /\ UNCHANGED <<callVars, retryVars, fetchVars, imgVars, auxVars>>
    \/ PostEnv /\ UNCHANGED <<callVars, retryVars, fetchVars, imgVars, auxVars>>
    \/ AiResponds /\ UNCHANGED <<callVars, retryVars, fetchVars, imgVars, auxVars>>
    \/ AiThrows /\ UNCHANGED <<callVars, retryVars, fetchVars, imgVars, auxVars>>
    \/ AiWake /\ UNCHANGED <<callVars, retryVars, fetchVars, imgVars, auxVars>>
    \/ PostPlaces /\ UNCHANGED <<callVars, retryVars, fetchVars, imgVars, auxVars>>
    \/ PostPlacesCall /\ UNCHANGED <<callVars, retryVars, fetchVars, imgVars, auxVars>>
    \/ PlacesAnswers /\ UNCHANGED <<callVars, retryVars, fetchVars, imgVars, auxVars>>
    \/ \E i \in ImageOutcomes :
          PostImages(i) /\ UNCHANGED <<callVars, retryVars, fetchVars, imgVars, auxVars>>
    \/ \E i \in ImageOutcomes :
          PostImagesNoKey(i) /\ UNCHANGED <<callVars, retryVars, fetchVars, imgVars, auxVars>>
    \/ PostClose /\ UNCHANGED <<callVars, retryVars, fetchVars, imgVars, auxVars>>
    \/ PostAdvance /\ UNCHANGED <<callVars, retryVars, fetchVars, imgVars, auxVars>>
    \/ \E g \in Gaps : PostWait(g) /\ UNCHANGED <<callVars, retryVars, fetchVars, imgVars, auxVars>>

SpecPost == InitPost /\ [][NextPost]_vars

\* The steps the handler takes by itself or on a timer: the continuation of a
\* settled promise, setTimeout of the backoff (part_000 205) and of
\* fetchWithTimeout (TIMEOUTS.AI), the deadline of the image fetch
\* (TIMEOUTS.IMAGES).  The arrival of a request, the environment and the
\* answer of the Google Places upstream are not among them.
PostProgress ==
    /\ \/ AiResponds
       \/ AiThrows
       \/ AiWake
       \/ PostAdvance
       \/ PostPlaces
       \/ PostPlacesCall
       \/ \E i \in ImageOutcomes : PostImages(i)
       \/ \E i \in ImageOutcomes : PostImagesNoKey(i)
       \/ PostClose
    /\ UNCHANGED <<callVars, retryVars, fetchVars, imgVars, auxVars>>

\* The endpoint under the assumption that timers fire.
SpecPostLive == InitPost /\ [][NextPost]_vars /\ WF_vars(PostProgress)

(***************************************************************************)
(* Specifications of fetchWithTimeout, retryWithBackoff and the breaker.   *)
(***************************************************************************)

ErrorNames == {"TimeoutError", "Error"}

InitRetry ==
    /\ NewBreaker(PerplexityThreshold, PerplexityReset)
    /\ maxAttempts \in 0..MaxAttempts
    /\ baseDelay \in 0..MaxBaseDelay
    /\ RetryIdle
    /\ FetchIdle(TIMEOUTS_GLOBAL, "fetch")
    /\ PostIdle
    /\ ImgIdle
    /\ AuxIdle

NextRetry ==
    \/ RetryStart /\ UNCHANGED <<cbVars, callVars, fetchVars, postVars, imgVars, auxVars>>
    \/ RetryOpResolves /\ UNCHANGED <<cbVars, callVars, fetchVars, postVars, imgVars, auxVars>>
    \/ \E n \in ErrorNames : RetryOpRejects(n) /\ UNCHANGED <<cbVars, callVars, fetchVars, postVars, imgVars, auxVars>>
    \/ RetryWake /\ UNCHANGED <<cbVars, callVars, fetchVars, postVars, imgVars, auxVars>>

SpecRetry == InitRetry /\ [][NextRetry]_vars

InitFetch ==
    /\ NewBreaker(PerplexityThreshold, PerplexityReset)
    /\ maxAttempts = 0
    /\ baseDelay = 0
    /\ RetryIdle
    /\ \E o \in FetchOptions : FetchIdle(o[1], o[2])
    /\ PostIdle
    /\ ImgIdle
    /\ AuxIdle

NextFetch ==
    \/ FetchStart /\ UNCHANGED <<state, failures, lastFailureTime, failureThreshold,
                                 resetTimeout, callVars, retryVars, postVars, imgVars, auxVars>>
    \/ \E st \in Statuses : FetchResponds(st)
          /\ UNCHANGED <<state, failures, lastFailureTime, failureThreshold,
                         resetTimeout, callVars, retryVars, postVars, imgVars, auxVars>>
    \/ \E e \in TransportErrors : FetchFails(e)
          /\ UNCHANGED <<state, failures, lastFailureTime, failureThreshold,
                         resetTimeout, callVars, retryVars, postVars, imgVars, auxVars>>
    \/ FetchTimerFires /\ UNCHANGED <<state, failures, lastFailureTime, failureThreshold,
                                      resetTimeout, callVars, retryVars, postVars, imgVars, auxVars>>
    \/ FetchTick /\ UNCHANGED <<state, failures, lastFailureTime, failureThreshold,
                                resetTimeout, callVars, retryVars, postVars, imgVars, auxVars>>

SpecFetch == InitFetch /\ [][NextFetch]_vars

InitImages ==
    /\ NewBreaker(PexelsThreshold, PexelsReset)
    /\ maxAttempts = 0
    /\ baseDelay = 0
    /\ RetryIdle
    /\ FetchIdle(TIMEOUTS_GLOBAL, "fetch")
    /\ PostIdle
    /\ \E k \in BOOLEAN : img = IdleImg(k)
    /\ AuxIdle

NextImages ==
    \/ DiverseStart /\ UNCHANGED <<callVars, retryVars, fetchVars, postVars, auxVars>>
    \/ \E l \in Locations, a \in Answers :
          SearchAnswers(l, a) /\ UNCHANGED <<callVars, retryVars, fetchVars, postVars, auxVars>>
    \/ \E l \in Locations :
          SearchThrows(l) /\ UNCHANGED <<callVars, retryVars, fetchVars, postVars, auxVars>>
    \/ DeadlineFires /\ UNCHANGED <<callVars, retryVars, fetchVars, postVars, auxVars>>

SpecImages == InitImages /\ [][NextImages]_vars

InitSelect ==
    /\ NewBreaker(PexelsThreshold, PexelsReset)
    /\ maxAttempts = 0
    /\ baseDelay = 0
    /\ RetryIdle
    /\ FetchIdle(TIMEOUTS_GLOBAL, "fetch")
    /\ PostIdle
    /\ ImgIdle
    /\ \E photos \in PhotoLists : sel = [IdleSel EXCEPT !.pc = "answered", !.photos = photos]
    /\ MultiIdle
    /\ ParIdle

NextSelect ==
    SelectImage /\ UNCHANGED <<cbVars, callVars, retryVars, fetchVars, postVars, imgVars,
                               multi, par>>

SpecSelect == InitSelect /\ [][NextSelect]_vars

InitMulti ==
    /\ NewBreaker(PexelsThreshold, PexelsReset)
    /\ maxAttempts = 0
    /\ baseDelay = 0
    /\ RetryIdle
    /\ FetchIdle(TIMEOUTS_GLOBAL, "fetch")
    /\ PostIdle
    /\ ImgIdle
    /\ SelIdle
    /\ \E k \in BOOLEAN : multi = IdleMulti(k)
    /\ ParIdle

NextMulti ==
    \/ MultiStart /\ UNCHANGED <<callVars, retryVars, fetchVars, postVars, imgVars, sel, par>>
    \/ \E k \in Queries, a \in Answers :
          MultiAnswers(k, a)
          /\ UNCHANGED <<callVars, retryVars, fetchVars, postVars, imgVars, sel, par>>
    \/ \E k \in Queries :
          MultiThrows(k)
          /\ UNCHANGED <<callVars, retryVars, fetchVars, postVars, imgVars, sel, par>>
    \/ MultiNextBatch
          /\ UNCHANGED <<callVars, retryVars, fetchVars, postVars, imgVars, sel, par>>

SpecMulti == InitMulti /\ [][NextMulti]_vars

InitParse ==
    /\ NewBreaker(PerplexityThreshold, PerplexityReset)
    /\ maxAttempts = 0
    /\ baseDelay = 0
    /\ RetryIdle
    /\ FetchIdle(TIMEOUTS_GLOBAL, "fetch")
    /\ PostIdle
    /\ ImgIdle
    /\ SelIdle
    /\ MultiIdle
    /\ ParIdle

NextParse ==
    \/ \E it \in Itineraries, b \in ProseBefore, a \in ProseAfter, tc \in BOOLEAN :
          ParStart(it, b, a, tc)
             /\ UNCHANGED <<cbVars, callVars, retryVars, fetchVars, postVars, imgVars, sel, multi>>
    \/ ParAttempt /\ UNCHANGED <<cbVars, callVars, retryVars, fetchVars, postVars, imgVars, sel, multi>>
    \/ ParClose /\ UNCHANGED <<cbVars, callVars, retryVars, fetchVars, postVars, imgVars, sel, multi>>

SpecParse == InitParse /\ [][NextParse]_vars

InitBreaker ==
    /\ \E th \in 1..MaxThreshold, rt \in 1..MaxReset : NewBreaker(th, rt)
    /\ maxAttempts = 0
    /\ baseDelay = 0
    /\ RetryIdle
    /\ FetchIdle(TIMEOUTS_GLOBAL, "fetch")
    /\ PostIdle
    /\ ImgIdle
    /\ AuxIdle

SpecBreaker == InitBreaker /\ [][NextBreaker]_vars

(***************************************************************************)
(* Claims about CircuitBreaker, checked under SpecBreaker.                 *)
(***************************************************************************)

\* C1: once failureThreshold execute() calls have failed with no successful
\* call in between, the breaker is OPEN, and as long as resetTimeout has not
\* elapsed since the last failure every execute() is rejected at the gate:
\* the caller's operation is not invoked.
C1_OpensAndRejects ==
    /\ (consecFail >= failureThreshold /\ now - lastFailureTime < resetTimeout)
          => state = "OPEN"
    /\ (/\ lastEvent.kind \in {"admit", "reject"}
        /\ consecFail >= failureThreshold
        /\ now - lastFailureTime < resetTimeout)
          => (lastEvent.kind = "reject" /\ pc[lastEvent.who] = "idle")
    /\ (/\ lastEvent.kind \in {"admit", "reject"}
        /\ lastEvent.from = "OPEN"
        /\ now - lastFailureTime < resetTimeout)
          => (lastEvent.kind = "reject" /\ state = "OPEN")

\* A call was rejected by a breaker that failureThreshold >= 2 consecutive
\* failures opened.
C1_Witness ==
    /\ failureThreshold >= 2
    /\ consecFail >= failureThreshold
    /\ now - lastFailureTime < resetTimeout
    /\ state = "OPEN"
    /\ lastEvent.kind = "reject"

\* C2: while the HALF_OPEN trial call is in flight, no other execute() call
\* is admitted.
C2_OnlyOneTrial ==
    ~(/\ lastEvent.kind = "admit"
      /\ lastEvent.from = "HALF_OPEN"
      /\ trial # 0
      /\ trial # lastEvent.who
      /\ pc[trial] = "inflight")

\* C3: a failed call that completes while the breaker is HALF_OPEN leaves the
\* breaker OPEN.
C3_HalfOpenFailureOpens ==
    (lastEvent.kind = "failure" /\ lastEvent.from = "HALF_OPEN") => state = "OPEN"

\* C4: a successful execute() sets the failure count to 0 and closes a
\* HALF_OPEN breaker; no other step takes the breaker from OPEN or HALF_OPEN to
\* CLOSED; the failure count is the number of failures since the last success.
C4_SuccessResets ==
    /\ lastEvent.kind = "success"
          => (failures = 0 /\ (lastEvent.from = "HALF_OPEN" => state = "CLOSED"))
    /\ (state = "CLOSED" /\ lastEvent.from # "CLOSED")
          => (lastEvent.kind = "success" /\ lastEvent.from = "HALF_OPEN")
    /\ failures = consecFail

\* A trial call succeeded on a HALF_OPEN breaker that had counted failures.
C4_Witness ==
    /\ lastEvent.kind = "success"
    /\ lastEvent.from = "HALF_OPEN"
    /\ state = "CLOSED"
    /\ failures = 0
    /\ lastFailureTime > 0

\* C14: a call that is past the gate is not affected by the breaker turning
\* OPEN: whatever the state, its operation can resolve or reject and the
\* call then ends with that outcome; only a call that is at the gate of an
\* OPEN breaker is rejected.
C14_InFlightUnaffected ==
    /\ \A c \in Callers :
          pc[c] = "inflight" => (ENABLED CompleteOk(c) /\ ENABLED CompleteFail(c))
    /\ lastEvent.kind \in {"success", "failure"} => pc[lastEvent.who] = "idle"
    /\ lastEvent.kind = "reject" =>
          (lastEvent.from = "OPEN" /\ state = "OPEN" /\ pc[lastEvent.who] = "idle")

\* A call admitted before another call's failure opened the breaker resolved
\* while the breaker was OPEN.
C14_Witness ==
    /\ lastEvent.kind = "success"
    /\ lastEvent.from = "OPEN"
    /\ state = "OPEN"
    /\ failureThreshold >= 2

\* C27: in every reachable state of the breaker, OPEN implies that the
\* failure count has reached failureThreshold and CLOSED implies that it is
\* below failureThreshold.
C27_StateMatchesCount ==
    /\ state = "OPEN" => failures >= failureThreshold
    /\ state = "CLOSED" => failures < failureThreshold

(***************************************************************************)
(* Claims about retryWithBackoff, checked under SpecRetry.                 *)
(***************************************************************************)

\* C7: with maxAttempts = N >= 1, a run in which every invocation failed
\* (TimeoutError or any other error) made exactly N invocations, waited
\* baseDelay * 2^(k-1) after failed attempt k for k = 1..N-1 and nothing
\* after attempt N, and rejected with the error object attempt N threw; while
\* the run lasts the k-th wait is baseDelay * 2^(k-1).
C7_AlwaysFailing ==
    /\ \A k \in DOMAIN delays : delays[k] = baseDelay * 2 ^ (k - 1)
    /\ (rpc = "sleep" /\ maxAttempts >= 1) => Len(delays) = Len(errors)
    /\ (rpc = "done" /\ maxAttempts >= 1 /\ succeededAt = 0)
          => /\ invocations = maxAttempts
             /\ Len(errors) = maxAttempts
             /\ Len(delays) = maxAttempts - 1
             /\ outcome = [type |-> "throw", error |-> errors[maxAttempts]]
             /\ outcome.error.id = maxAttempts

\* Four attempts failed, the second with a TimeoutError, and the run is over.
C7_Witness ==
    /\ rpc = "done"
    /\ maxAttempts = 4
    /\ baseDelay = 2
    /\ succeededAt = 0
    /\ Len(errors) = 4
    /\ errors[2].name = "TimeoutError"
    /\ errors[4].name = "Error"
    /\ delays = <<2, 4, 8>>

\* C8: the operation is never invoked after an invocation succeeded: a run
\* whose first success is invocation k has made exactly k invocations, all
\* earlier ones failed, and it returns that invocation's result; the number
\* of invocations never exceeds maxAttempts.
C8_NoRetryOnSuccess ==
    /\ invocations <= maxAttempts
    /\ succeededAt # 0
          => /\ rpc = "done"
             /\ invocations = succeededAt
             /\ Len(errors) = succeededAt - 1
             /\ Len(delays) = succeededAt - 1
             /\ outcome = [type |-> "return", value |-> [by |-> succeededAt]]
    /\ (rpc = "done" /\ succeededAt = 0) => outcome.type = "throw"

\* The second invocation succeeded after the first failed.
C8_Witness ==
    /\ rpc = "done"
    /\ maxAttempts = 3
    /\ succeededAt = 2
    /\ invocations = 2
    /\ Len(errors) = 1

(***************************************************************************)
(* Claims about fetchWithTimeout, checked under SpecFetch.                 *)
(***************************************************************************)

\* C9: fetchWithTimeout settles exactly once, with whichever of the request
\* and the deadline comes first. Deadline first: the abort signal is fired
\* and the call fails with a TimeoutError naming the operation and the
\* configured deadline. Request failed first: the same error object is
\* thrown. Request completed first: its response is returned, the timer is
\* cancelled, and the deadline neither fires nor aborts anything afterwards.
C9_FirstSettlerWins ==
    /\ settles = (IF fpc = "done" THEN 1 ELSE 0)
    /\ (fpc = "done") = (fres.type # "pending")
    /\ (fpc = "done") = (net.kind # "pending")
    /\ fpc = "done" => timer \in {"fired", "cleared"}
    /\ timer = "fired"
          => /\ aborted
             /\ now - startedAt >= timeout
             /\ fres = [type |-> "throw",
                        error |-> [name |-> "TimeoutError",
                                   operation |-> operation, timeout |-> timeout]]
    /\ (net.kind = "error" /\ net.error.name # "AbortError")
          => /\ fres = [type |-> "throw", error |-> net.error]
             /\ timer = "cleared"
             /\ ~aborted
    /\ net.kind = "response"
          => /\ fres = [type |-> "return", response |-> net.response]
             /\ timer = "cleared"
             /\ ~aborted
    /\ (fres.type = "throw" /\ fres.error.name = "TimeoutError") => timer = "fired"

\* The deadline of the AI call fired first.
C9_Witness ==
    /\ fpc = "done"
    /\ timer = "fired"
    /\ operation = "perplexity-api"
    /\ fres.type = "throw"
    /\ fres.error.timeout = TIMEOUTS_AI

(***************************************************************************)
(* Claims about the itinerary endpoint, checked under SpecPost.            *)
(***************************************************************************)

\* C5: the perplexity breaker wraps the whole retry sequence: while one
\* itinerary request is handled, the breaker's success/failure hook runs at
\* most once and the request adds at most 1 to the failure count.
C5_HookOncePerRequest ==
    /\ req.hooks <= 1
    /\ req.failInc <= 1

\* C6: an AI-generation call that starts while the perplexity breaker is OPEN
\* and its reset timeout has not elapsed makes no network request, goes
\* through the breaker's gate once without a second retry attempt, and waits
\* no backoff delay.
C6_OpenBreakerCostsNothing ==
    req.openAtStart =>
        /\ req.netCalls = 0
        /\ req.attempt <= 1
        /\ req.slept = 0

\* C10: a well-formed request (city, budget and days in [1,14] present) is
\* answered with HTTP 200 whatever the upstream services did.
C10_UpstreamNeverFailsRequest ==
    (req.pc = "done" /\ req.wellFormed) => req.resp.status = 200

\* C23: the parse loop makes at most 5 parse attempts and ends by a parse or
\* by giving up; after giving up the request is served with the generated
\* itinerary and status 200, and the AI upstream is not called again.
C23_ParseGivesUpInside ==
    /\ \A e \in ParseEnds :
          /\ e.end \in {"parsed", "threw"}
          /\ e.parseAttempts + (IF e.end = "parsed" THEN 1 ELSE 0) <= 5
          /\ e.end = "threw" => e.parseAttempts = 5
    /\ req.parseEnd = "threw" =>
          /\ req.pc \in {"places", "placesAwait", "images", "done"}
          /\ req.netCalls <= req.attempt
          /\ req.itinerary = generateEnhancedFallbackItinerary(req.days)
          /\ req.pc = "done" => req.resp.status = 200
C23_Witness ==
    /\ req.pc = "done"
    /\ req.parseEnd = "threw"
    /\ [end |-> "threw", parseAttempts |-> 5] \in ParseEnds
    /\ req.resp.status = 200
    /\ req.resp.itinerary.source = "fallback"


\* The request has been answered with status 200.
Answered == req.pc = "done" /\ req.resp.status = 200

\* C11: the itinerary of a 200 answer to a valid request has exactly `days`
\* day entries, each with exactly the 3 dining entries Breakfast, Lunch and
\* Dinner, whichever path produced it.
C11_DaysAndMeals ==
    (Answered /\ req.wellFormed) =>
        /\ Len(req.resp.itinerary.days) = req.days
        /\ \A i \in DOMAIN req.resp.itinerary.days :
              LET day == req.resp.itinerary.days[i] IN
              /\ day.hasDining
              /\ Len(day.dining) = 3
              /\ {day.dining[j] : j \in 1..3} = {"Breakfast", "Lunch", "Dinner"}

\* The AI phase of the request ended on a non-2xx answer of the AI upstream.
EndedOnNon2xx ==
    /\ req.pc \in {"places", "images", "done"}
    /\ req.pending.kind = "response"
    /\ req.pending.status # 200

\* C12: a non-2xx answer of the AI upstream is retried: the AI phase ends on
\* a non-2xx answer only when the 3-attempt ceiling has been reached.
C12_Non2xxRetried ==
    EndedOnNon2xx => req.attempt = AiMaxAttempts

\* C13: a non-2xx answer of the AI upstream counts as a failure of the
\* perplexity breaker: after it the failure count is at least 1.
C13_Non2xxCountsAsFailure ==
    EndedOnNon2xx => (failures >= 1 /\ req.failInc >= 1)

\* C15: an AI answer that parses but has no non-empty day list is replaced
\* by the deterministic itinerary: no answered itinerary of the AI has an
\* empty day list.
C15_EmptyDayListFallsBack ==
    (Answered /\ req.resp.itinerary.source = "ai") =>
        Len(req.resp.itinerary.days) > 0

\* C17: an answer whose itinerary the deterministic generator produced does
\* not carry the metadata of an AI-generated answer.
C17_FallbackDisclosed ==
    (Answered /\ req.resp.itinerary.source = "fallback") =>
        req.resp.aiModel # "llama-3.1-sonar-small-128k-online"

C18_CuratedCityImage ==
    (Answered /\ req.curated /\ req.resp.locationImages # "fetched") =>
        req.resp.locationImages = "cityFallback"

(***************************************************************************)
(* Claims about fetchDiverseLocationImages, checked under SpecImages.      *)
(***************************************************************************)

\* C19: at most 3 image searches are in flight at any instant of the
\* diverse-image fetch.
C19_AtMostThreeInFlight ==
    Cardinality(InFlight(img.loc)) <= BATCH_SIZE

\* C20: when the collection deadline expires, the function returns the
\* images of the locations that had resolved by then.
C20_PartialOnDeadline ==
    (img.pc = "returned" /\ img.expired) => img.result = img.resolvedAtExpiry

\* C22: whatever happened to the other locations, every location whose own
\* searches gave an image before the function returned has an entry in the
\* mapping returned.
C22_IsolatedFailures ==
    img.pc = "returned" =>
        (IF img.expired THEN img.resolvedAtExpiry ELSE Found(img.loc))
            \subseteq img.result

\* C29: a location is searched with its primary query, then with its three
\* fallback queries in order, at most 1 + 3 searches, and once the function
\* has returned a location has no entry only if all its searches gave nothing.
C29_FallbackQueriesInOrder ==
    /\ \A l \in Locations :
          img.loc[l].st = "inflight" => img.loc[l].q \in 0..FallbackQueries
    /\ img.pc = "returned" =>
          \A l \in Locations \ img.result :
              img.loc[l].st = "none" \/ (img.expired /\ l \notin img.resolvedAtExpiry)

(***************************************************************************)
(* Claims about the image selection, checked under SpecSelect.             *)
(***************************************************************************)

\* C26: the image returned is below 800 x 600 only when none of the first 5
\* results meets the bar, and it is then the first result; when one of the
\* first 5 meets the bar, the image returned is one of the first 5 and meets it.
C26_ResolutionBar ==
    (sel.pc = "returned" /\ sel.returned # 0) =>
        LET top == {i \in DOMAIN sel.photos : i <= TopResults}
            good == {i \in top : MeetsBar(sel.photos[i])} IN
        /\ ~MeetsBar(sel.photos[sel.returned]) => (good = {} /\ sel.returned = 1)
        /\ good # {} => sel.returned \in good

\* None of the first 5 results meets the bar, the sixth does, and the first
\* raw result is returned.
C26_Witness ==
    /\ sel.pc = "returned"
    /\ Len(sel.photos) > TopResults
    /\ \A i \in 1..TopResults : ~MeetsBar(sel.photos[i])
    /\ MeetsBar(sel.photos[TopResults + 1])
    /\ sel.returned = 1

(***************************************************************************)
(* Claims about fetchMultiplePexelsImages, checked under SpecMulti.        *)
(***************************************************************************)

\* C21: an item whose search failed (timeout, transport error, non-2xx or
\* breaker-open) is given up only after retryWithBackoff has made its 2
\* attempts.
C21_FailedSearchRetried ==
    \A k \in Queries :
        (multi.items[k].st = "done" /\ multi.items[k].failed)
            => multi.items[k].searches = MultiMaxAttempts

\* C30: a batch starts only when every search of the batches before it has
\* settled, and the array returned has one entry per query, in query order:
\* the image of the query or null.
C30_BatchesInOrder ==
    /\ \A k \in Queries :
          multi.items[k].st # "waiting" =>
              \A j \in Queries :
                  (\E b \in 0..NumQueries : j \in BatchOf(b * BATCH_SIZE)
                                             /\ k > (b + 1) * BATCH_SIZE)
                      => multi.items[j].st = "done"
    /\ \A k \in Queries :
          multi.items[k].st # "waiting" =>
              \A j \in Queries : j < k => multi.items[j].st # "waiting"
    /\ Cardinality({k \in Queries : multi.items[k].st = "inflight"}) <= BATCH_SIZE
    /\ multi.pc = "returned" =>
          /\ Len(multi.results) = NumQueries
          /\ \A k \in Queries :
                /\ multi.results[k] \in {"image", "null"}
                /\ multi.results[k] = multi.items[k].value

\* A second batch ran and the array returned mixes images and nulls.
C30_Witness ==
    /\ multi.pc = "returned"
    /\ NumQueries > BATCH_SIZE
    /\ multi.results[1] = "null"
    /\ multi.results[2] = "image"
    /\ multi.results[NumQueries] = "image"
    /\ multi.items[1].failed


\* C28: every well-formed request that is being handled is eventually answered.
C28_EveryRequestAnswered ==
    (req.wellFormed /\ req.pc \notin {"idle", "done"}) ~> (req.pc = "done")

(***************************************************************************)
(* Claims about the repair parser (SpecParse).                             *)
(***************************************************************************)

\* C24: an itinerary-shaped object that is serialized, embedded in prose and
\* passed through the extraction and the three repair passes is parsed into
\* an object deep-equal to the original.
C24_RoundTrip ==
    (par.pc = "done" /\ ~par.trailingComma) =>
        /\ par.end = "parsed"
        /\ par.itinerary = par.original

\* C25: prose, an itinerary object with a comma before its closing brace, and
\* more prose: the text is repaired and parsed into the itinerary it contains,
\* and the parse loop does not throw.
C25_TrailingCommaRepaired ==
    (/\ par.pc = "done"
     /\ par.trailingComma
     /\ par.before # << >> /\ ~HasBraces(par.before)
     /\ par.after # << >> /\ ~HasBraces(par.after)) =>
        /\ par.end = "parsed"
        /\ par.itinerary = par.original

=========================================================================
